---- MODULE Spec2Model ----
(***************************************************************************)
(* Model of the movie collection manager: the two storage backends         *)
(* (storage_json.py, storage_csv.py) and the menu commands of movie_app.py.*)
(*                                                                         *)
(* Python values are tagged records, a dict is the sequence of its items   *)
(* in insertion order, a file is what the library wrote into it: the JSON  *)
(* document as its member tokens, the CSV file as rows of field texts.     *)
(* Texts are single-line printable texts; numbers are finite decimals      *)
(* (ratings are counted in tenths).                                        *)
(***************************************************************************)
EXTENDS Integers, Sequences, FiniteSets, TLC

VARIABLES jsonFile, csvFile, ref, started, last, data, loaded, backend, pc, out, html

vars == <<jsonFile, csvFile, ref, started, last, data, loaded, backend, pc, out, html>>

(***************************************************************************)
(* Bounds and value domains                                                *)
(***************************************************************************)
NumTitles == 2

TitlePool == <<"A", "B", "C", "D", "E">>
Titles == {TitlePool[i] : i \in 1..NumTitles}

YearInts == {0, 1995, 2002}
RatingTenths == {0, 50, 90, 92}
RatingInts == {9}
PosterTexts == {"N/A", "http://p/x.jpg"}

(***************************************************************************)
(* Python values                                                           *)
(***************************************************************************)
None == [tag |-> "none", n |-> 0, s |-> ""]
PyInt(n) == [tag |-> "int", n |-> n, s |-> ""]
PyFloat(t) == [tag |-> "float", n |-> t, s |-> ""]
PyStr(s) == [tag |-> "str", n |-> 0, s |-> s]

IsNumber(v) == v.tag \in {"int", "float"}
\* the number a Python int or float stands for, in tenths
Tenths(v) == IF v.tag = "int" THEN 10 * v.n ELSE v.n

\* Python's ==: an int and a float are equal when they are the same number
PyEq(a, b) ==
    IF IsNumber(a) /\ IsNumber(b) THEN Tenths(a) = Tenths(b) ELSE a = b

\* str(int), repr(float)
IntText(n) == ToString(n)
FloatText(t) == ToString(t \div 10) \o "." \o ToString(t % 10)

IntUniverse == YearInts \cup RatingInts
FloatUniverse == RatingTenths \cup {10 * n : n \in IntUniverse}

\* int(text): the integer a decimal literal denotes, or ValueError
IntTexts == [n \in IntUniverse |-> IntText(n)]
IntParses(s) == \E n \in IntUniverse : IntTexts[n] = s
IntOf(s) == CHOOSE n \in IntUniverse : IntTexts[n] = s

\* float(text): accepts a float literal and an integer literal, or ValueError
FloatTexts == [t \in FloatUniverse |-> FloatText(t)]
FloatParses(s) ==
    \/ \E t \in FloatUniverse : FloatTexts[t] = s
    \/ \E n \in IntUniverse : IntTexts[n] = s
FloatOf(s) ==
    IF \E t \in FloatUniverse : FloatTexts[t] = s
    THEN CHOOSE t \in FloatUniverse : FloatTexts[t] = s
    ELSE 10 * (CHOOSE n \in IntUniverse : IntTexts[n] = s)

(***************************************************************************)
(* Python dict: items in insertion order, keys unique                      *)
(***************************************************************************)
Info(year, rating, poster) == [year |-> year, rating |-> rating, poster |-> poster]
Item(k, v) == [k |-> k, v |-> v]

Keys(d) == {d[i].k : i \in DOMAIN d}
Has(d, k) == \E i \in DOMAIN d : d[i].k = k
Get(d, k) == d[CHOOSE i \in DOMAIN d : d[i].k = k].v

\* a d[k] = v that always adds an item
DictSetAppends(d, k, v) == Append(d, Item(k, v))

\* d[k] = v: an existing key keeps its position, a new key goes last
DictSet(d, k, v) ==
    IF Has(d, k)
    THEN [i \in DOMAIN d |-> IF d[i].k = k THEN Item(k, v) ELSE d[i]]
    ELSE Append(d, Item(k, v))

\* del d[k]
DictDel(d, k) == SelectSeq(d, LAMBDA it : it.k # k)

(***************************************************************************)
(* What a storage call hands back: the exception it raised ("" for none)   *)
(* with the value it returned, or with the file it left behind             *)
(***************************************************************************)
Returned(v) == [exc |-> "", val |-> v]
Raised(e) == [exc |-> e, val |-> <<>>]
Stored(f) == [exc |-> "", file |-> f]
Failed(e, f) == [exc |-> e, file |-> f]

(***************************************************************************)
(* StorageJson                                                             *)
(***************************************************************************)
TextUniverse == PosterTexts \cup {""}
PyUniverse ==
    {None} \cup {PyInt(n) : n \in IntUniverse}
           \cup {PyFloat(t) : t \in FloatUniverse}
           \cup {PyStr(s) : s \in TextUniverse}

\* json.dump of a member value: null, an integer or real literal, a quoted string
JsonToken(v) ==
    CASE v.tag = "none" -> "null"
      [] v.tag = "int" -> IntText(v.n)
      [] v.tag = "float" -> FloatText(v.n)
      [] OTHER -> "\"" \o v.s \o "\""

\* json.load of a member token
JsonTokens == [v \in PyUniverse |-> JsonToken(v)]
JsonValue(tok) == CHOOSE v \in PyUniverse : JsonTokens[v] = tok

JsonAbsent == [exists |-> FALSE, parses |-> FALSE, doc |-> <<>>]
\* a zero-byte, truncated or otherwise unparseable document
JsonGarbage == [exists |-> TRUE, parses |-> FALSE, doc |-> <<>>]

JsonLoad(f) ==
    IF ~f.exists THEN Returned(<<>>)
    ELSE IF ~f.parses THEN Returned(<<>>)
    ELSE Returned([i \in DOMAIN f.doc |->
            Item(f.doc[i].k, Info(JsonValue(f.doc[i].year),
                                  JsonValue(f.doc[i].rating),
                                  JsonValue(f.doc[i].poster)))])

JsonSave(d) ==
    [exists |-> TRUE, parses |-> TRUE,
     doc |-> [i \in DOMAIN d |->
                [k |-> d[i].k,
                 year |-> JsonToken(d[i].v.year),
                 rating |-> JsonToken(d[i].v.rating),
                 poster |-> JsonToken(d[i].v.poster)]]]

JsonList(f) == JsonLoad(f)

JsonAdd(f, title, year, rating, poster) ==
    LET r == JsonLoad(f) IN
    IF r.exc # "" THEN Failed(r.exc, f)
    ELSE Stored(JsonSave(DictSet(r.val, title, Info(year, rating, poster))))

JsonDelete(f, title) ==
    LET r == JsonLoad(f) IN
    IF r.exc # "" THEN Failed(r.exc, f)
    ELSE Stored(JsonSave(IF Has(r.val, title) THEN DictDel(r.val, title) ELSE r.val))

JsonUpdate(f, title, rating) ==
    LET r == JsonLoad(f) IN
    IF r.exc # "" THEN Failed(r.exc, f)
    ELSE Stored(JsonSave(
            IF Has(r.val, title)
            THEN DictSet(r.val, title, [Get(r.val, title) EXCEPT !.rating = rating])
            ELSE r.val))

(***************************************************************************)
(* StorageCsv                                                              *)
(***************************************************************************)
CsvHeader == <<"title", "year", "rating", "poster">>

CsvAbsent == [exists |-> FALSE, lines |-> <<>>]
CsvEmpty == [exists |-> TRUE, lines |-> <<>>]

\* a writer that formats a float without its fraction
CsvFieldTruncates(v) ==
    CASE v.tag = "none" -> ""
      [] v.tag = "int" -> IntText(v.n)
      [] v.tag = "float" -> IntText(v.n \div 10)
      [] OTHER -> v.s

\* csv.writer's text of a field: None is written as the empty field
CsvField(v) ==
    CASE v.tag = "none" -> ""
      [] v.tag = "int" -> IntText(v.n)
      [] v.tag = "float" -> FloatText(v.n)
      [] OTHER -> v.s

\* csv.DictReader's row[name]: KeyError when the header does not name the
\* column, None (restval) when the row is shorter than the header
HasColumn(header, name) == \E i \in DOMAIN header : header[i] = name
Column(header, row, name) ==
    LET i == CHOOSE j \in DOMAIN header : header[j] = name
    IN IF i <= Len(row) THEN PyStr(row[i]) ELSE None

\* a reader loop that falls back to zero where a number does not parse
CsvRowZero(header, row) ==
    IF ~HasColumn(header, "title") THEN Raised("KeyError")
    ELSE IF ~HasColumn(header, "year") THEN Raised("KeyError")
    ELSE IF Column(header, row, "year") = None THEN Raised("TypeError")
    ELSE IF ~HasColumn(header, "rating") THEN Raised("KeyError")
    ELSE IF Column(header, row, "rating") = None THEN Raised("TypeError")
    ELSE IF ~HasColumn(header, "poster") THEN Raised("KeyError")
    ELSE LET y == Column(header, row, "year").s
             r == Column(header, row, "rating").s
         IN Returned([title |-> Column(header, row, "title"),
                      info |-> Info(IF IntParses(y) THEN PyInt(IntOf(y)) ELSE PyInt(0),
                                    IF FloatParses(r) THEN PyFloat(FloatOf(r)) ELSE PyFloat(0),
                                    Column(header, row, "poster"))])

\* one pass of the reader loop: title, int(year), float(rating), poster in
\* the order the code evaluates them
CsvRow(header, row) ==
    IF ~HasColumn(header, "title") THEN Raised("KeyError")
    ELSE IF ~HasColumn(header, "year") THEN Raised("KeyError")
    ELSE IF Column(header, row, "year") = None THEN Raised("TypeError")
    ELSE IF ~HasColumn(header, "rating") THEN Raised("KeyError")
    ELSE IF Column(header, row, "rating") = None THEN Raised("TypeError")
    ELSE IF ~HasColumn(header, "poster") THEN Raised("KeyError")
    ELSE LET y == Column(header, row, "year").s
             r == Column(header, row, "rating").s
         IN Returned([title |-> Column(header, row, "title"),
                      info |-> Info(IF IntParses(y) THEN PyInt(IntOf(y)) ELSE None,
                                    IF FloatParses(r) THEN PyFloat(FloatOf(r)) ELSE None,
                                    Column(header, row, "poster"))])

RECURSIVE CsvRows(_, _, _, _)
CsvRows(header, lines, i, movies) ==
    IF i > Len(lines) THEN Returned(movies)
    ELSE IF lines[i] = <<>> THEN CsvRows(header, lines, i + 1, movies)
    ELSE LET r == CsvRow(header, lines[i]) IN
         IF r.exc # "" THEN Raised(r.exc)
         ELSE CsvRows(header, lines, i + 1, DictSet(movies, r.val.title.s, r.val.info))

CsvLoad(f) ==
    IF ~f.exists THEN Returned(<<>>)
    ELSE IF f.lines = <<>> THEN Returned(<<>>)
    ELSE LET r == CsvRows(f.lines[1], f.lines, 2, <<>>) IN
         IF r.exc = "KeyError" THEN Returned(<<>>) ELSE r

CsvSave(d) ==
    [exists |-> TRUE,
     lines |-> <<CsvHeader>> \o
               [i \in DOMAIN d |-> <<d[i].k, CsvField(d[i].v.year),
                                     CsvField(d[i].v.rating), CsvField(d[i].v.poster)>>]]

CsvList(f) == CsvLoad(f)

CsvAdd(f, title, year, rating, poster) ==
    LET r == CsvLoad(f) IN
    IF r.exc # "" THEN Failed(r.exc, f)
    ELSE Stored(CsvSave(DictSet(r.val, title, Info(year, rating, poster))))

\* a delete without the membership test: del movies[title] raises KeyError
CsvDeleteUnguarded(f, title) ==
    LET r == CsvLoad(f) IN
    IF r.exc # "" THEN Failed(r.exc, f)
    ELSE IF ~Has(r.val, title) THEN Failed("KeyError", f)
    ELSE Stored(CsvSave(DictDel(r.val, title)))

CsvDelete(f, title) ==
    LET r == CsvLoad(f) IN
    IF r.exc # "" THEN Failed(r.exc, f)
    ELSE Stored(CsvSave(IF Has(r.val, title) THEN DictDel(r.val, title) ELSE r.val))

\* an update without the membership test that creates the record
CsvUpdateCreates(f, title, rating) ==
    LET r == CsvLoad(f) IN
    IF r.exc # "" THEN Failed(r.exc, f)
    ELSE Stored(CsvSave(
            DictSet(r.val, title,
                    IF Has(r.val, title)
                    THEN [Get(r.val, title) EXCEPT !.rating = rating]
                    ELSE Info(None, rating, None))))

CsvUpdate(f, title, rating) ==
    LET r == CsvLoad(f) IN
    IF r.exc # "" THEN Failed(r.exc, f)
    ELSE Stored(CsvSave(
            IF Has(r.val, title)
            THEN DictSet(r.val, title, [Get(r.val, title) EXCEPT !.rating = rating])
            ELSE r.val))

(***************************************************************************)
(* The storage contract exercised on both backends at once: the same call  *)
(* goes to a StorageJson and to a StorageCsv, and to the title -> record   *)
(* map the contract describes (ref).                                       *)
(***************************************************************************)
NoCall == [op |-> "", title |-> "", rating |-> None, exc |-> ""]
Call(op, title, rating, exc) == [op |-> op, title |-> title, rating |-> rating, exc |-> exc]

\* the arguments the calls are made with
AddArgs ==
    { Info(PyInt(1995), PyFloat(50), PyStr("N/A")),
      Info(PyInt(2002), PyInt(9), PyStr("http://p/x.jpg")) }
UpdateRatings == {PyFloat(92), PyInt(9)}

\* a collection written by an earlier run
SavedBefore ==
    << Item("B", Info(PyInt(2002), PyFloat(90), PyStr("http://p/x.jpg"))),
       Item("A", Info(PyInt(1995), PyFloat(50), PyStr("N/A"))) >>

AsMap(d) == [k \in Keys(d) |-> Get(d, k)]

\* the first exception of a call made on both backends
Exc(a, b) == IF a.exc # "" THEN a.exc ELSE b.exc

AppUnused ==
    /\ data = <<>>
    /\ loaded = Returned(<<>>)
    /\ backend = ""
    /\ pc = ""
    /\ out = <<>>
    /\ html = <<>>

Init ==
    /\ started \in {"absent", "saved"}
    /\ jsonFile = IF started = "absent" THEN JsonAbsent ELSE JsonSave(SavedBefore)
    /\ csvFile = IF started = "absent" THEN CsvAbsent ELSE CsvSave(SavedBefore)
    /\ ref = IF started = "absent" THEN <<>> ELSE AsMap(SavedBefore)
    /\ last = NoCall
    /\ AppUnused

AddMovie(title, a) ==
    LET j == JsonAdd(jsonFile, title, a.year, a.rating, a.poster)
        c == CsvAdd(csvFile, title, a.year, a.rating, a.poster)
    IN /\ jsonFile' = j.file
       /\ csvFile' = c.file
       /\ ref' = [k \in DOMAIN ref \cup {title} |-> IF k = title THEN a ELSE ref[k]]
       /\ last' = Call("add", title, a.rating, Exc(j, c))
       /\ UNCHANGED <<started, data, loaded, backend, pc, out, html>>

DeleteMovie(title) ==
    LET j == JsonDelete(jsonFile, title)
        c == CsvDelete(csvFile, title)
    IN /\ jsonFile' = j.file
       /\ csvFile' = c.file
       /\ ref' = [k \in DOMAIN ref \ {title} |-> ref[k]]
       /\ last' = Call("delete", title, None, Exc(j, c))
       /\ UNCHANGED <<started, data, loaded, backend, pc, out, html>>

UpdateMovie(title, rating) ==
    LET j == JsonUpdate(jsonFile, title, rating)
        c == CsvUpdate(csvFile, title, rating)
    IN /\ jsonFile' = j.file
       /\ csvFile' = c.file
       /\ ref' = [k \in DOMAIN ref |->
                    IF k = title THEN [ref[k] EXCEPT !.rating = rating] ELSE ref[k]]
       /\ last' = Call("update", title, rating, Exc(j, c))
       /\ UNCHANGED <<started, data, loaded, backend, pc, out, html>>

Next ==
    \/ \E t \in Titles, a \in AddArgs : AddMovie(t, a)
    \/ \E t \in Titles : DeleteMovie(t)
    \/ \E t \in Titles, r \in UpdateRatings : UpdateMovie(t, r)

Spec == Init /\ [][Next]_vars

(***************************************************************************)
(* Properties of the storage contract (checked under Spec)                 *)
(***************************************************************************)
NoDuplicates(d) == \A i, j \in DOMAIN d : d[i].k = d[j].k => i = j

InfoEq(a, b) ==
    /\ PyEq(a.year, b.year)
    /\ PyEq(a.rating, b.rating)
    /\ PyEq(a.poster, b.poster)

\* the same titles with equal records in the same iteration order
SameListing(a, b) ==
    /\ Len(a) = Len(b)
    /\ \A i \in DOMAIN a : a[i].k = b[i].k /\ InfoEq(a[i].v, b[i].v)

MatchesRef(r) ==
    /\ r.exc = ""
    /\ NoDuplicates(r.val)
    /\ Keys(r.val) = DOMAIN ref
    /\ \A k \in Keys(r.val) : InfoEq(Get(r.val, k), ref[k])

\* C1: after any sequence of add / delete / update calls, list_movies() of
\* each backend is the title -> record map obtained by applying the calls in
\* order (last write per title wins), with at most one record per title.
C1_NetEffect ==
    /\ last.exc = ""
    /\ MatchesRef(JsonList(jsonFile))
    /\ MatchesRef(CsvList(csvFile))

\* an add has overwritten the record of a title that was already stored, with
\* another record beside it
C1_Witness ==
    /\ last.op = "add"
    /\ Cardinality(DOMAIN ref) = 2
    /\ started = "saved"
    /\ ref[last.title] # AsMap(SavedBefore)[last.title]

\* what update_movie(title, rating) may change between two listings
UpdateFrame(before, after, title, rating) ==
    /\ after.exc = ""
    /\ Len(after.val) = Len(before.val)
    /\ \A i \in DOMAIN before.val :
          /\ after.val[i].k = before.val[i].k
          /\ after.val[i].v.year = before.val[i].v.year
          /\ after.val[i].v.poster = before.val[i].v.poster
          /\ IF before.val[i].k = title
             THEN PyEq(after.val[i].v.rating, rating)
             ELSE after.val[i].v.rating = before.val[i].v.rating

\* C6: update_movie(title, rating) changes nothing but the rating of the
\* record keyed by title: year, poster and every other record stay, and an
\* absent title leaves the listing as it was (no record is created).
C6_UpdateFrame ==
    [][last'.op = "update" =>
          /\ UpdateFrame(JsonList(jsonFile), JsonList(jsonFile'), last'.title, last'.rating)
          /\ UpdateFrame(CsvList(csvFile), CsvList(csvFile'), last'.title, last'.rating)
          /\ last'.exc = ""]_vars

\* an update has replaced the rating of a stored title that has a neighbour
C6_Witness ==
    /\ last.op = "update"
    /\ Len(CsvList(csvFile).val) = 2
    /\ Has(CsvList(csvFile).val, last.title)
    /\ PyEq(Get(CsvList(csvFile).val, last.title).rating, last.rating)

DeleteTwice(list(_), delete(_, _), f, t) ==
    LET once == delete(f, t)
        twice == delete(once.file, t)
    IN /\ once.exc = ""
       /\ twice.exc = ""
       /\ list(twice.file) = list(once.file)
       /\ ~Has(list(f).val, t) => list(once.file) = list(f)

\* C7: delete_movie is idempotent: on every collection and every title, a
\* second delete_movie(title) leaves the collection the first one produced,
\* and deleting an absent title changes nothing and raises no error.
C7_DeleteIdempotent ==
    /\ last.op = "delete" => last.exc = ""
    /\ \A t \in Titles :
          /\ DeleteTwice(JsonList, JsonDelete, jsonFile, t)
          /\ DeleteTwice(CsvList, CsvDelete, csvFile, t)

\* a delete of a title that was not stored has run on a non-empty collection
C7_Witness ==
    /\ last.op = "delete"
    /\ ~Has(CsvList(csvFile).val, last.title)
    /\ Len(CsvList(csvFile).val) >= 1
    /\ started = "absent"

\* C10: the same call sequence on a StorageJson and a StorageCsv that both
\* start from an absent file keeps their listings equal, title for title
\* and in the same iteration order, after every step.
C10_Interchangeable ==
    started = "absent" =>
        /\ JsonList(jsonFile).exc = ""
        /\ CsvList(csvFile).exc = ""
        /\ SameListing(JsonList(jsonFile).val, CsvList(csvFile).val)

\* both hold two records, one of them with a fractional rating and one whose
\* integer rating the document keeps as an integer and the table reads as a float
C10_Witness ==
    /\ started = "absent"
    /\ Len(JsonList(jsonFile).val) = 2
    /\ \E i \in DOMAIN JsonList(jsonFile).val :
          JsonList(jsonFile).val[i].v.rating # CsvList(csvFile).val[i].v.rating
    /\ \E i \in DOMAIN CsvList(csvFile).val :
          CsvList(csvFile).val[i].v.rating = PyFloat(92)

(***************************************************************************)
(* One backend saving and loading: a collection held in memory is saved    *)
(* and read back, or a file found on disk (written by an earlier run, by   *)
(* hand, or cut short while being written) is loaded.                      *)
(***************************************************************************)
RoundTripInfos ==
    { Info(PyInt(1995), PyFloat(92), PyStr("N/A")),
      Info(PyInt(2002), PyInt(9), PyStr("N/A")),
      Info(PyInt(0), PyFloat(0), PyStr("http://p/x.jpg")),
      Info(None, PyFloat(50), PyStr("http://p/x.jpg")),
      Info(None, None, PyStr("")) }

Injective(f) == \A i, j \in DOMAIN f : f[i] = f[j] => i = j

\* every dict of at most NumTitles records over Titles and RoundTripInfos
Collections ==
    UNION { { [i \in 1..n |-> Item(ts[i], is[i])] :
                ts \in {f \in [1..n -> Titles] : Injective(f)},
                is \in [1..n -> RoundTripInfos] } : n \in 0..NumTitles }

FullRow == <<"A", "1995", "9.2", "N/A">>

\* the files a backend may find, by what happened to them
FoundJson(kind) ==
    CASE kind = "zero-byte" -> JsonGarbage
      [] kind = "truncated" -> JsonGarbage
      [] OTHER -> JsonSave(SavedBefore)

FoundCsv(kind) ==
    CASE kind = "zero-byte" -> CsvEmpty
      [] kind = "header-only" -> [exists |-> TRUE, lines |-> <<CsvHeader>>]
      [] kind = "truncated" ->
            [exists |-> TRUE, lines |-> <<CsvHeader, FullRow, <<"B", "2002">> >>]
      [] kind = "short-row" ->
            [exists |-> TRUE, lines |-> <<CsvHeader, <<"A", "1995", "9.2">> >>]
      [] kind = "missing-column" ->
            [exists |-> TRUE, lines |-> << <<"title", "year", "rating">>, FullRow>>]
      [] kind = "bad-numbers" ->
            [exists |-> TRUE, lines |-> <<CsvHeader, FullRow, <<"B", "N/A", "", "N/A">> >>]
      [] kind = "no-rating" ->
            [exists |-> TRUE, lines |-> <<CsvHeader, <<"B", "N/A", "", "N/A">> >>]
      [] kind = "blank-line" ->
            [exists |-> TRUE, lines |-> <<CsvHeader, <<>>, FullRow>>]
      [] OTHER -> CsvSave(SavedBefore)

JsonKinds == {"zero-byte", "truncated", "saved"}
CsvKinds == {"zero-byte", "header-only", "truncated", "short-row", "missing-column",
             "bad-numbers", "blank-line", "saved"}

\* the kinds of file that are corrupt or partially written
Unreadable == {"zero-byte", "truncated", "short-row", "missing-column"}

\* list_movies() of the backend in use
ListOf(b, jf, cf) == IF b = "json" THEN JsonList(jf) ELSE CsvList(cf)
StLoad == ListOf(backend, jsonFile, csvFile)

InitIO ==
    /\ backend \in {"json", "csv"}
    /\ \/ /\ started = "absent"
          /\ data \in Collections
          /\ jsonFile = JsonAbsent
          /\ csvFile = CsvAbsent
       \/ /\ started \in (IF backend = "json" THEN JsonKinds ELSE CsvKinds)
          /\ data = <<>>
          /\ jsonFile = IF backend = "json" THEN FoundJson(started) ELSE JsonAbsent
          /\ csvFile = IF backend = "csv" THEN FoundCsv(started) ELSE CsvAbsent
    /\ ref = <<>>
    /\ last = NoCall
    /\ loaded = Returned(<<>>)
    /\ pc = ""
    /\ out = <<>>
    /\ html = <<>>

\* _save_data(data)
Save ==
    /\ jsonFile' = IF backend = "json" THEN JsonSave(data) ELSE jsonFile
    /\ csvFile' = IF backend = "csv" THEN CsvSave(data) ELSE csvFile
    /\ last' = Call("save", "", None, "")
    /\ UNCHANGED <<ref, started, data, loaded, backend, pc, out, html>>

\* list_movies()
Load ==
    /\ loaded' = StLoad
    /\ last' = Call(IF last.op \in {"save", "save+load"} THEN "save+load" ELSE "load",
                     "", None, StLoad.exc)
    /\ UNCHANGED <<jsonFile, csvFile, ref, started, data, backend, pc, out, html>>

NextIO == Save \/ Load

SpecIO == InitIO /\ [][NextIO]_vars

\* C2: list_movies() never raises, and returns an empty mapping whenever the
\* file is absent, zero-byte, corrupt or partially written (a tabular row
\* with fewer fields than the header, a document that does not parse).
C2_LoadDegrades ==
    last.op = "load" =>
        /\ loaded.exc = ""
        /\ started \in Unreadable \cup {"absent"} => loaded.val = <<>>

\* C8: saving a collection and loading it back at once yields an equal
\* mapping with the same titles in the same order; the tabular backend
\* writes an absent number as an empty field and reads it back as None,
\* which stays distinct from a parsed zero.
C8_RoundTrip ==
    last.op = "save+load" =>
        /\ loaded.exc = ""
        /\ SameListing(loaded.val, data)
        /\ backend = "csv" =>
              \A i \in DOMAIN data :
                 /\ data[i].v.year = None =>
                       csvFile.lines[i + 1][2] = "" /\ loaded.val[i].v.year = None
                 /\ data[i].v.rating = None =>
                       csvFile.lines[i + 1][3] = "" /\ loaded.val[i].v.rating = None
                 /\ data[i].v.year = PyInt(0) => loaded.val[i].v.year = PyInt(0)
                 /\ data[i].v.rating = PyFloat(0) => loaded.val[i].v.rating = PyFloat(0)

\* the tabular backend has read back a collection holding both an absent
\* year and a zero year
C8_Witness ==
    /\ last.op = "save+load"
    /\ backend = "csv"
    /\ \E i, j \in DOMAIN loaded.val :
          /\ data[i].v.year = None
          /\ data[j].v.year = PyInt(0)

(***************************************************************************)
(* MovieApp: the menu loop and its commands, on one backend                *)
(***************************************************************************)
AppTitles == {"A", "B", "C"}

\* what the user types at a prompt, and str.strip() of it
TitleInputs == {"", "  ", "b"}
KeyInputs == AppTitles \cup {""}
RatingInputs == {"", "abc", " 9.0 "}
Strip(s) ==
    CASE s = "  " -> ""
      [] s = " 9.0 " -> "9.0"
      [] OTHER -> s

\* what OMDb answers
NoData == [Response |-> "", Title |-> "", Year |-> "", imdbRating |-> "", Poster |-> ""]
Found(title, year, rating, poster) ==
    [Response |-> "True", Title |-> title, Year |-> year, imdbRating |-> rating,
     Poster |-> poster]
Answer(net, body, d) == [net |-> net, body |-> body, data |-> d]
Answers ==
    { Answer("error", "", NoData),
      Answer("ok", "garbled", NoData),
      Answer("ok", "json", [NoData EXCEPT !.Response = "False"]) }
    \cup { Answer("ok", "json", Found("A", "1995", "5.0", "N/A")),
           Answer("ok", "json", Found("B", "N/A", "9.0", "http://p/x.jpg")),
           Answer("ok", "json", Found("C", "2002", "N/A", "N/A")) }

\* which of its outcomes the source gave
Source(a) ==
    IF a.net = "error" THEN "unreachable"
    ELSE IF a.body = "garbled" THEN "garbled"
    ELSE IF a.data.Response = "False" THEN "not found"
    ELSE "found"

\* a _fetch_movie_data that takes a not-found answer for the movie
FetchIgnoresNotFound(a) ==
    IF a.net = "error" THEN [exc |-> "", none |-> TRUE, data |-> NoData]
    ELSE IF a.body = "garbled" THEN [exc |-> "JSONDecodeError", none |-> TRUE, data |-> NoData]
    ELSE [exc |-> "", none |-> FALSE, data |-> a.data]

\* _fetch_movie_data: None on a request error or a not-found answer; the
\* body is decoded outside the try block
FetchMovieData(a) ==
    IF a.net = "error" THEN [exc |-> "", none |-> TRUE, data |-> NoData]
    ELSE IF a.body = "garbled" THEN [exc |-> "JSONDecodeError", none |-> TRUE, data |-> NoData]
    ELSE IF a.data.Response = "False" THEN [exc |-> "", none |-> TRUE, data |-> NoData]
    ELSE [exc |-> "", none |-> FALSE, data |-> a.data]

StAdd(title, year, rating, poster) ==
    IF backend = "json" THEN JsonAdd(jsonFile, title, year, rating, poster)
    ELSE CsvAdd(csvFile, title, year, rating, poster)
StDelete(title) ==
    IF backend = "json" THEN JsonDelete(jsonFile, title) ELSE CsvDelete(csvFile, title)
StUpdate(title, rating) ==
    IF backend = "json" THEN JsonUpdate(jsonFile, title, rating)
    ELSE CsvUpdate(csvFile, title, rating)

\* the file the backend in use is left with
Files(r) ==
    /\ jsonFile' = IF backend = "json" THEN r.file ELSE jsonFile
    /\ csvFile' = IF backend = "csv" THEN r.file ELSE csvFile

Cmd(cmd, result, title, input, source) ==
    [cmd |-> cmd, result |-> result, title |-> title, input |-> input, source |-> source]
Out(msg) == [msg |-> msg, count |-> 0, sum |-> 0, n |-> 0, avg |-> 0, max |-> "", min |-> ""]

NoHtml == [written |-> FALSE, items |-> 0]

\* an uncaught exception leaves run(); anything else comes back to the menu
After(exc) == IF exc = "" THEN "menu" ELSE "crashed"

InitApp ==
    /\ backend \in {"json", "csv"}
    /\ started \in (IF backend = "json" THEN {"absent"}
                     ELSE {"absent", "no-rating", "truncated"})
    /\ jsonFile = JsonAbsent
    /\ csvFile = IF started = "absent" THEN CsvAbsent ELSE FoundCsv(started)
    /\ ref = <<>>
    /\ data = <<>>
    /\ loaded = Returned(<<>>)
    /\ last = Cmd("", "", "", "", "")
    /\ pc = "menu"
    /\ out = Out("")
    /\ html = NoHtml

Frame == UNCHANGED <<ref, started, data, loaded, backend>>

CommandListMovies ==
    /\ pc = "menu"
    /\ LET r == StLoad IN
       /\ pc' = After(r.exc)
       /\ last' = Cmd("list", IF r.exc # "" THEN "raised" ELSE "done", "", "", "")
       /\ out' = IF r.exc # "" THEN Out("")
                 ELSE IF r.val = <<>> THEN Out("No movies found.")
                 ELSE [Out("listed") EXCEPT !.count = Len(r.val)]
    /\ UNCHANGED <<jsonFile, csvFile, html>>
    /\ Frame

CommandAddMovie(typed, a) ==
    /\ pc = "menu"
    /\ LET title == Strip(typed)
           f == FetchMovieData(a)
           year == IF IntParses(f.data.Year) THEN PyInt(IntOf(f.data.Year)) ELSE PyInt(0)
           rating == IF FloatParses(f.data.imdbRating)
                     THEN PyFloat(FloatOf(f.data.imdbRating)) ELSE PyFloat(0)
           r == StAdd(f.data.Title, year, rating, PyStr(f.data.Poster))
       IN
       IF title = "" THEN
            /\ last' = Cmd("add", "empty title", "", typed, "")
            /\ out' = Out("Title cannot be empty. Operation cancelled.")
            /\ UNCHANGED <<jsonFile, csvFile, pc>>
       ELSE IF f.exc # "" THEN
            /\ last' = Cmd("add", "raised", "", typed, Source(a))
            /\ out' = Out("")
            /\ pc' = "crashed"
            /\ UNCHANGED <<jsonFile, csvFile>>
       ELSE IF f.none THEN
            /\ last' = Cmd("add", IF a.net = "error" THEN "unreachable" ELSE "not found",
                            "", typed, Source(a))
            /\ out' = Out(IF a.net = "error" THEN "Error: Could not connect to OMDb API."
                          ELSE "Movie not found in OMDb.")
            /\ UNCHANGED <<jsonFile, csvFile, pc>>
       ELSE /\ Files(r)
            /\ pc' = After(r.exc)
            /\ last' = Cmd("add", IF r.exc # "" THEN "raised" ELSE "added",
                            f.data.Title, typed, Source(a))
            /\ out' = Out(IF r.exc # "" THEN "" ELSE "added successfully.")
    /\ UNCHANGED html
    /\ Frame

CommandDeleteMovie(typed) ==
    /\ pc = "menu"
    /\ LET r == StDelete(Strip(typed)) IN
       /\ Files(r)
       /\ pc' = After(r.exc)
       /\ last' = Cmd("delete", IF r.exc # "" THEN "raised" ELSE "done", "", "", "")
       /\ out' = Out(IF r.exc # "" THEN "" ELSE "deleted (if it existed).")
    /\ UNCHANGED html
    /\ Frame

CommandUpdateMovie(typed, typedRating) ==
    /\ pc = "menu"
    /\ LET title == Strip(typed)
           text == Strip(typedRating)
           r == StUpdate(title, PyFloat(FloatOf(text)))
       IN
       IF title = "" THEN
            /\ last' = Cmd("update", "empty title", "", "", "")
            /\ out' = Out("Title cannot be empty.")
            /\ UNCHANGED <<jsonFile, csvFile, pc>>
       ELSE IF text = "" THEN
            /\ last' = Cmd("update", "empty rating", "", "", "")
            /\ out' = Out("Rating cannot be empty.")
            /\ UNCHANGED <<jsonFile, csvFile, pc>>
       ELSE IF ~FloatParses(text) THEN
            /\ last' = Cmd("update", "not a number", "", "", "")
            /\ out' = Out("Rating must be a number.")
            /\ UNCHANGED <<jsonFile, csvFile, pc>>
       ELSE /\ Files(r)
            /\ pc' = After(r.exc)
            /\ last' = Cmd("update", IF r.exc # "" THEN "raised" ELSE "done", "", "", "")
            /\ out' = Out(IF r.exc # "" THEN "" ELSE "rating updated (if it existed).")
    /\ UNCHANGED html
    /\ Frame

\* a max / min that lets a later item win a tie
RECURSIVE ExtremeLast(_, _, _, _)
ExtremeLast(movies, i, best, greater) ==
    IF i > Len(movies) THEN Returned(movies[best].k)
    ELSE IF ~IsNumber(movies[i].v.rating) \/ ~IsNumber(movies[best].v.rating)
         THEN Raised("TypeError")
    ELSE LET x == Tenths(movies[i].v.rating)
             b == Tenths(movies[best].v.rating)
         IN ExtremeLast(movies, i + 1,
                    IF (greater /\ x >= b) \/ (~greater /\ x <= b) THEN i ELSE best,
                    greater)

\* max(movies, key=rating) and min(movies, key=rating): the first item stands
\* until a later one compares strictly greater (smaller); comparing with None
\* raises TypeError
RECURSIVE Extreme(_, _, _, _)
Extreme(movies, i, best, greater) ==
    IF i > Len(movies) THEN Returned(movies[best].k)
    ELSE IF ~IsNumber(movies[i].v.rating) \/ ~IsNumber(movies[best].v.rating)
         THEN Raised("TypeError")
    ELSE LET x == Tenths(movies[i].v.rating)
             b == Tenths(movies[best].v.rating)
         IN Extreme(movies, i + 1,
                    IF (greater /\ x > b) \/ (~greater /\ x < b) THEN i ELSE best,
                    greater)

MaxTitle(movies) == Extreme(movies, 2, 1, TRUE)
MinTitle(movies) == Extreme(movies, 2, 1, FALSE)

RECURSIVE Sum(_)
Sum(ratings) == IF ratings = <<>> THEN 0 ELSE Tenths(Head(ratings)) + Sum(Tail(ratings))

\* the ratings that are int or float, in iteration order
ValidRatings(movies) ==
    SelectSeq([i \in DOMAIN movies |-> movies[i].v.rating], IsNumber)

\* f"{avg:.2f}" in hundredths (sum is in tenths)
TwoDecimals(sum, n) == (2 * 10 * sum + n) \div (2 * n)

CommandMovieStats ==
    /\ pc = "menu"
    /\ LET r == StLoad
           movies == r.val
           ratings == ValidRatings(movies)
           hi == MaxTitle(movies)
           lo == MinTitle(movies)
       IN
       IF r.exc # "" THEN
            /\ pc' = "crashed"
            /\ last' = Cmd("stats", "raised", "", "", "")
            /\ out' = Out("")
       ELSE IF movies = <<>> THEN
            /\ pc' = "menu"
            /\ last' = Cmd("stats", "done", "", "", "")
            /\ out' = Out("No movies found. Cannot calculate statistics.")
       ELSE IF ratings = <<>> THEN
            /\ pc' = "menu"
            /\ last' = Cmd("stats", "done", "", "", "")
            /\ out' = Out("No valid ratings found. Cannot calculate statistics.")
       ELSE IF hi.exc # "" \/ lo.exc # "" THEN
            /\ pc' = "crashed"
            /\ last' = Cmd("stats", "raised", "", "", "")
            /\ out' = Out("")
       ELSE /\ pc' = "menu"
            /\ last' = Cmd("stats", "done", "", "", "")
            /\ out' = [msg |-> "Movie Statistics", count |-> Len(movies),
                       sum |-> Sum(ratings), n |-> Len(ratings),
                       avg |-> TwoDecimals(Sum(ratings), Len(ratings)),
                       max |-> hi.val, min |-> lo.val]
    /\ UNCHANGED <<jsonFile, csvFile, html>>
    /\ Frame

\* the template exists or not; the gallery gets one <li> fragment per movie
CommandGenerateWebsite(template) ==
    /\ pc = "menu"
    /\ LET r == StLoad IN
       IF r.exc # "" THEN
            /\ pc' = "crashed"
            /\ last' = Cmd("website", "raised", "", "", "")
            /\ out' = Out("")
            /\ UNCHANGED html
       ELSE IF r.val = <<>> THEN
            /\ last' = Cmd("website", "no movies", "", "", "")
            /\ out' = Out("No movies found. Website not generated.")
            /\ UNCHANGED <<html, pc>>
       ELSE IF ~template THEN
            /\ last' = Cmd("website", "no template", "", "", "")
            /\ out' = Out("Template file not found")
            /\ UNCHANGED <<html, pc>>
       ELSE /\ last' = Cmd("website", "done", "", "", "")
            /\ out' = Out("Website was generated successfully.")
            /\ html' = [written |-> TRUE, items |-> Len(r.val)]
            /\ UNCHANGED pc
    /\ UNCHANGED <<jsonFile, csvFile>>
    /\ Frame

InvalidChoice ==
    /\ pc = "menu"
    /\ last' = Cmd("invalid", "done", "", "", "")
    /\ out' = Out("Invalid choice. Try again.")
    /\ UNCHANGED <<jsonFile, csvFile, html, pc>>
    /\ Frame

Exit ==
    /\ pc = "menu"
    /\ pc' = "exited"
    /\ last' = Cmd("exit", "done", "", "", "")
    /\ out' = Out("Exiting the app.")
    /\ UNCHANGED <<jsonFile, csvFile, html>>
    /\ Frame

NextApp ==
    \/ CommandListMovies
    \/ \E typed \in TitleInputs, a \in Answers : CommandAddMovie(typed, a)
    \/ \E typed \in KeyInputs : CommandDeleteMovie(typed)
    \/ \E typed \in KeyInputs, rating \in RatingInputs : CommandUpdateMovie(typed, rating)
    \/ CommandMovieStats
    \/ \E template \in BOOLEAN : CommandGenerateWebsite(template)
    \/ InvalidChoice
    \/ Exit

SpecApp == InitApp /\ [][NextApp]_vars

(***************************************************************************)
(* Properties of the commands (checked under SpecApp)                      *)
(***************************************************************************)
Listing == StLoad.val
TitlesOf(d) == [i \in DOMAIN d |-> d[i].k]

\* the titles whose rating is the largest (smallest) of the valid ratings
Top(movies) ==
    {movies[i].k : i \in {j \in DOMAIN movies :
        /\ IsNumber(movies[j].v.rating)
        /\ \A h \in DOMAIN movies : IsNumber(movies[h].v.rating) =>
               Tenths(movies[h].v.rating) <= Tenths(movies[j].v.rating)}}
Bottom(movies) ==
    {movies[i].k : i \in {j \in DOMAIN movies :
        /\ IsNumber(movies[j].v.rating)
        /\ \A h \in DOMAIN movies : IsNumber(movies[h].v.rating) =>
               Tenths(movies[h].v.rating) >= Tenths(movies[j].v.rating)}}

\* the first title in iteration order among a set of titles
First(movies, titles) ==
    movies[CHOOSE i \in DOMAIN movies :
              /\ movies[i].k \in titles
              /\ \A j \in 1..(i - 1) : movies[j].k \notin titles].k

\* C3: Statistics on a non-empty collection completes: with at least one
\* valid rating (others may be None) it reports the unfiltered count, the
\* mean of the valid ratings and the maximum- and minimum-rated records; with
\* none it reports that statistics cannot be computed.
C3_StatsFilters ==
    (last.cmd = "stats" /\ StLoad.exc = "" /\ Listing # <<>>) =>
        /\ pc = "menu"
        /\ IF ValidRatings(Listing) = <<>>
           THEN out.msg = "No valid ratings found. Cannot calculate statistics."
           ELSE /\ out.msg = "Movie Statistics"
                /\ out.count = Len(Listing)
                /\ out.sum = Sum(ValidRatings(Listing))
                /\ out.n = Len(ValidRatings(Listing))
                /\ out.max \in Top(Listing)
                /\ out.min \in Bottom(Listing)

\* C4: no command is fatal: every choice comes back to the menu prompt, and
\* the loop ends only on choice 0.
C4_NeverFatal ==
    /\ pc \in {"menu", "exited"}
    /\ pc = "exited" => last.cmd = "exit"

\* C5: an Add that does not succeed (empty or whitespace-only title, source
\* answering not-found, source unreachable) performs no storage add and
\* leaves the persisted collection as it was; a successful Add writes exactly
\* one record, keyed by the title the source returned.
C5_AddAtomic ==
    [][last'.cmd = "add" =>
          LET before == Listing
              after == ListOf(backend, jsonFile', csvFile')
          IN /\ (Strip(last'.input) = "" \/ last'.source \in {"not found", "unreachable"})
                    => last'.result # "added"
             /\ last'.result # "added" => (jsonFile' = jsonFile /\ csvFile' = csvFile)
             /\ last'.result = "added" =>
                   /\ after.exc = ""
                   /\ last'.title \in AppTitles
                   /\ Has(after.val, last'.title)
                   /\ after.val = DictSet(before, last'.title, Get(after.val, last'.title))
                   /\ NoDuplicates(after.val)]_vars

\* the source has answered not-found while a collection was stored
C5_Witness ==
    /\ last.cmd = "add"
    /\ last.result = "not found"
    /\ Len(Listing) >= 2
    /\ pc = "menu"

====
